---- MODULE Spec2Model ----
(***************************************************************************)
(* A model of the reel poster: post_reels.py (the due-item cycle) and its  *)
(* two service shells, server_runner.py and post-service/app.py.           *)
(*                                                                         *)
(* Time is counted in ticks; TicksPerMin ticks make one minute.  A value    *)
(* that Python keeps as "None or a string" is a sequence here: <<>> is the *)
(* absent (falsy) value and <<v>> the value v.                             *)
(***************************************************************************)
EXTENDS Integers, Sequences, FiniteSets, TLC

VARIABLES
    now,          \* the wall clock (UTC), in ticks
    env,          \* the process environment: which variables are set
    shell,        \* which service shell this process is
    run_lock,     \* threading.Lock: <<>> when free, <<t>> when t holds it
    last_status,  \* the shell's last_status dictionary
    file,         \* reels/schedule.json: the record list on disk
    fileValid,    \* FALSE when the file on disk is not valid JSON
    pc,           \* per trigger: where its request / job stands
    req,          \* per trigger: the RunRequest it carries
    resp,         \* per trigger: the last HTTP response it was given
    cyc,          \* per trigger: the local state of its process_due_items call
    posted,       \* per record id: successful REELS media_publish calls (history)
    runs,         \* the number of triggers that were let in so far (history)
    dueIn,        \* is_due: the arguments of the last call
    dueOut,       \* is_due: the result of the last call
    hState,       \* http_request: "loop", "returned" or "raised"
    hLog,         \* http_request: the responses of the attempts made so far
    hSlept,       \* http_request: seconds slept in backoff so far
    pState,       \* wait_until_processed: "polling", "returned", or the error raised
    pElapsed,     \* wait_until_processed: time.time() - t0, in seconds
    pLast,        \* wait_until_processed: <<>> or the last poll <<result, status>>
    postIn,       \* post_one: the arguments of the last call and what the remote did
    postOut       \* post_one: what the last call raised, returned and called

vars == <<now, env, shell, run_lock, last_status, file, fileValid, pc, req, resp,
          cyc, posted, runs, dueIn, dueOut, hState, hLog, hSlept, pState, pElapsed, pLast,
          postIn, postOut>>

serviceVars == <<env, shell, run_lock, last_status, file, fileValid, pc, req, resp,
                 cyc, posted, runs>>
dueVars  == <<dueIn, dueOut>>
httpVars == <<hState, hLog, hSlept>>
pollVars == <<pState, pElapsed, pLast>>
postVars == <<postIn, postOut>>
\* what the actions of the service leave alone
otherVars == <<dueVars, httpVars, pollVars, postVars>>

----------------------------------------------------------------------------
(* Bounds of the model *)

\* clock resolution: ticks per minute
TicksPerMin == 2
\* the clock stops advancing at MaxTime ticks
MaxTime == 3
\* longest duration, in seconds, of one status request of the processing poll
MaxCallSec == 1
\* the history counter of successful reel publishes stops counting here
MaxPosts == 2
\* the number of triggers the service lets in during one run of the model
MaxRuns == 2

----------------------------------------------------------------------------
(* Due-Item Selector *)

\* a timezone-aware ISO time: the wall-clock reading and the UTC offset it is
\* written with, both in ticks
IsoTime(wall, off) == [wall |-> wall, off |-> off]

\* datetime.astimezone(timezone.utc)
AsUtc(iso) == iso.wall - iso.off

\* is_due with the left comparison dropped
IsDueNoLower(iso, window_minutes, clock) ==
    (clock - AsUtc(iso)) < window_minutes * TicksPerMin

\* is_due with the right comparison dropped: due for ever after
IsDueNoUpper(iso, window_minutes, clock) ==
    (clock - AsUtc(iso)) >= 0

\* is_due with a closed upper bound
IsDueClosed(iso, window_minutes, clock) ==
    LET delta == clock - AsUtc(iso)
    IN  delta >= 0 /\ delta <= window_minutes * TicksPerMin

\* is_due comparing the wall-clock reading without normalising to UTC
IsDueNoUtc(iso, window_minutes, clock) ==
    LET delta == clock - iso.wall
    IN  delta >= 0 /\ delta < window_minutes * TicksPerMin

\* is_due(iso_str, window_minutes), with datetime.now(timezone.utc) = clock:
\* delta_min = (now_utc - dt_utc) / 1 minute; delta_min >= 0 and delta_min < window
IsDue(iso, window_minutes, clock) ==
    LET delta == clock - AsUtc(iso)
    IN  delta >= 0 /\ delta < window_minutes * TicksPerMin

----------------------------------------------------------------------------
(* Transport: http_request *)

\* http_request's defaults
retries == 5
backoff == 2
ok == {200}
RetryStatuses == {429, 500, 502, 503, 504}

\* resp.text of a response: JSON, blank, or text that json cannot parse
Bodies == {"json", "empty", "text"}

\* what one call of requests.request gives: <<>> when it raises
\* requests.RequestException, <<status, body>> when it returns a response; the
\* body of a response that is not ok only feeds the error message
Statuses == ok \cup RetryStatuses \cup {201, 400, 403}
Responses ==
    {<<>>} \cup {<<s, b>> : s \in ok, b \in Bodies}
           \cup {<<s, "json">> : s \in Statuses \ ok}

\* the body of an ok response handed back: resp.json() raises on a body that is
\* neither blank nor JSON, outside the try that guards requests.request
Decode(r) == IF r[2] = "text" THEN "raise" ELSE "return"

\* the loop body retrying after every failure, whatever the status
HttpStepRetryAll(attempt, r) ==
    IF r = <<>>
    THEN IF attempt = retries - 1 THEN "raise" ELSE "retry"
    ELSE IF r[1] \in ok THEN Decode(r) ELSE "retry"

\* one pass of the loop body of http_request, attempt counted from 0:
\* "return" (the response is handed back), "retry" (continue) or "raise"
HttpStep(attempt, r) ==
    IF r = <<>>
    THEN IF attempt = retries - 1 THEN "raise" ELSE "retry"
    ELSE IF r[1] \in ok THEN Decode(r)
    ELSE IF r[1] \in RetryStatuses THEN "retry"
    ELSE "raise"

\* time.sleep(backoff * (2 ** attempt)) before a retry
HttpSleep(attempt, r) ==
    IF HttpStep(attempt, r) = "retry" THEN backoff * (2 ^ attempt) ELSE 0

\* where http_request stands after the pass: still in the loop, returned, or
\* raised (by the body, or by the line after the loop once range(retries) ends)
HttpAfter(attempt, r) ==
    LET o == HttpStep(attempt, r)
    IN  IF o = "return" THEN "returned"
        ELSE IF o = "raise" THEN "raised"
        ELSE IF attempt + 1 < retries THEN "loop" ELSE "raised"

\* http_request run against a script of responses, one per attempt
RECURSIVE HttpLoop(_, _)
HttpLoop(script, attempt) ==
    LET after == HttpAfter(attempt, script[attempt + 1])
    IN  IF after = "loop" THEN HttpLoop(script, attempt + 1) ELSE after

HttpRequest(script) == HttpLoop(script, 0)

InitHttp ==
    /\ hState = "loop"
    /\ hLog = <<>>
    /\ hSlept = 0

\* one attempt of http_request
HttpAttempt ==
    /\ hState = "loop"
    /\ \E r \in Responses :
        /\ hLog' = Append(hLog, r)
        /\ hState' = HttpAfter(Len(hLog), r)
        /\ hSlept' = hSlept + HttpSleep(Len(hLog), r)

----------------------------------------------------------------------------
(* Publisher: wait_until_processed *)

\* wait_until_processed's defaults, in seconds
poll_sec == 6
timeout_sec == 600

\* status_code values of a container; "None" when the field is missing
ContainerStatuses == {"FINISHED", "ERROR", "IN_PROGRESS", "EXPIRED", "None"}

\* the loop body without the timeout check
PollStepNoTimeout(httpResult, status, elapsed) ==
    IF httpResult = "raised" THEN "RequestError"
    ELSE IF status = "FINISHED" THEN "returned"
    ELSE IF status = "ERROR" THEN "RuntimeError"
    ELSE "polling"

\* one pass of the loop body of wait_until_processed: httpResult is how the
\* status request ended, elapsed is time.time() - t0 after it
PollStep(httpResult, status, elapsed) ==
    IF httpResult = "raised" THEN "RequestError"
    ELSE IF status = "FINISHED" THEN "returned"
    ELSE IF status = "ERROR" THEN "RuntimeError"
    ELSE IF elapsed > timeout_sec THEN "TimeoutError"
    ELSE "polling"

\* time.sleep(poll_sec) at the end of a pass that goes round again
PollSleep(after) == IF after = "polling" THEN poll_sec ELSE 0

InitPoll ==
    /\ pState = "polling"
    /\ pElapsed = 0
    /\ pLast = <<>>

\* one pass of the poll loop; the status request takes d seconds
PollOnce ==
    /\ pState = "polling"
    /\ \E d \in 0..MaxCallSec, h \in {"returned", "raised"}, st \in ContainerStatuses :
        LET after == PollStep(h, st, pElapsed + d)
        IN  /\ pState' = after
            /\ pElapsed' = pElapsed + d + PollSleep(after)
            /\ pLast' = <<h, st>>

----------------------------------------------------------------------------
(* Schedule Store and records *)

\* the ids of the records the generator may have written, in file order
RecIds == <<"a", "b">>

\* the UTC offset of Asia/Kolkata, which the generator writes, in ticks
Kolkata == 330 * TicksPerMin

\* a record as the generator writes it: no outcome field yet
NewRecord(id, post_at, url) ==
    [id |-> id, post_at_iso |-> post_at, public_video_url |-> url,
     published_at_iso |-> <<>>, publish_attempted_at_iso |-> <<>>,
     publish_error |-> <<>>, dry_run_info |-> <<>>,
     ig_creation_id |-> <<>>, ig_media_id |-> <<>>]

\* post_at_iso: absent, or one tick after the model's clock starts, written in
\* Kolkata time
PostAts == {<<>>, <<IsoTime(1 + Kolkata, Kolkata)>>}
Urls == {<<>>, <<"explicit">>}

Schedules ==
    UNION {[1..n -> PostAts \X Urls] : n \in 0..Len(RecIds)}

\* the schedule.json the generator left: records with distinct ids
InitialFile(choice) ==
    [k \in DOMAIN choice |-> NewRecord(RecIds[k], choice[k][1], choice[k][2])]

\* load_schedule: the record list, [] when the file is absent; "raise" when
\* json.load fails
LoadSchedule(f, valid) ==
    IF valid THEN [result |-> "returned", records |-> f]
    ELSE [result |-> "raised", records |-> <<>>]

----------------------------------------------------------------------------
(* Publisher *)

\* resolve_video_url: <<url>>, or <<>> when it raises RuntimeError
ResolveVideoUrl(rec, public_base_url) ==
    IF rec.public_video_url # <<>> THEN rec.public_video_url
    ELSE IF public_base_url THEN <<"derived">>
    ELSE <<>>

\* requests.request's timeout, in seconds
http_timeout == 60

\* the longest one http_request call can take: every attempt times out
SlowCallSec == retries * http_timeout + backoff * (2 ^ (retries - 1) - 1)

\* a script of responses: the first attempt's, then the same for all later ones
Script(first, rest) == [k \in 1..retries |-> IF k = 1 THEN first ELSE rest]

\* the behaviours of the remote API one outbound call of a cycle may meet
HttpScripts ==
    { Script(<<200, "json">>, <<200, "json">>),
      Script(<<503, "json">>, <<200, "json">>),
      Script(<<400, "json">>, <<400, "json">>),
      Script(<<500, "json">>, <<500, "json">>),
      Script(<<>>, <<>>) }

Poll(h, st, d) == [h |-> h, st |-> st, d |-> d]

\* the behaviours of the remote API one processing poll of a cycle may meet:
\* per pass, how the status request ends, the status, and the seconds it takes
PollScripts ==
    { <<Poll("returned", "FINISHED", 1)>>,
      <<Poll("returned", "IN_PROGRESS", 1), Poll("returned", "FINISHED", 1)>>,
      <<Poll("returned", "ERROR", 1)>>,
      <<Poll("raised", "None", SlowCallSec)>>,
      <<Poll("returned", "IN_PROGRESS", SlowCallSec),
        Poll("returned", "None", SlowCallSec)>> }

\* wait_until_processed run against a script of polls
RECURSIVE PollLoop(_, _, _)
PollLoop(script, k, elapsed) ==
    LET e == elapsed + script[k].d
        after == PollStep(script[k].h, script[k].st, e)
    IN  IF after = "polling" /\ k < Len(script)
        THEN PollLoop(script, k + 1, e + PollSleep(after))
        ELSE after

WaitResult(script) == PollLoop(script, 1, 0)

----------------------------------------------------------------------------
(* Cycle Runner: the annotations process_due_items writes on a record *)

\* str(e): the message of the exception post_one raised, told apart only by
\* whether the media URL could not be resolved or a remote step failed
Str(e) == IF e = "NoUrl" THEN "No public_video_url" ELSE "remote step failed"

\* the except branch also taking the record off the schedule
StampErrorUnschedules(rec, e, clock) ==
    [rec EXCEPT !.publish_error = <<Str(e)>>, !.publish_attempted_at_iso = <<clock>>,
                !.post_at_iso = <<>>]

\* the except branch leaving the record untouched
StampErrorNothing(rec, e, clock) == rec

\* the except branch also marking the record published
StampErrorPublished(rec, e, clock) ==
    [rec EXCEPT !.publish_error = <<Str(e)>>, !.publish_attempted_at_iso = <<clock>>,
                !.published_at_iso = <<clock>>]

\* except Exception as e: publish_error, publish_attempted_at_iso
StampError(rec, e, clock) ==
    [rec EXCEPT !.publish_error = <<Str(e)>>, !.publish_attempted_at_iso = <<clock>>]

\* the dry-run branch marking the record published
StampDryRunPublished(rec, result, clock) ==
    [rec EXCEPT !.publish_attempted_at_iso = <<clock>>, !.dry_run_info = <<result>>,
                !.published_at_iso = <<clock>>]

\* if dry_run: publish_attempted_at_iso, dry_run_info
StampDryRun(rec, result, clock) ==
    [rec EXCEPT !.publish_attempted_at_iso = <<clock>>, !.dry_run_info = <<result>>]

\* the success branch stamping the publish time without the remote identifiers
StampPublishedNoIds(rec, result, clock) ==
    [rec EXCEPT !.publish_attempted_at_iso = <<clock>>,
                !.published_at_iso = <<clock>>]

\* else: publish_attempted_at_iso, published_at_iso, ig_creation_id, ig_media_id,
\* setdefault("public_video_url")
StampPublished(rec, result, clock) ==
    [rec EXCEPT !.publish_attempted_at_iso = <<clock>>,
                !.published_at_iso = <<clock>>,
                !.ig_creation_id = <<result.creation_id>>,
                !.ig_media_id = <<result.media_id>>,
                !.public_video_url = IF @ = <<>> THEN <<result.video_url>> ELSE @]

----------------------------------------------------------------------------
(* Cycle Runner: process_due_items, one trigger's call of it *)

Triggers == {"t1", "t2"}

\* window_min values a RunRequest may carry
Windows == {1}
Requests ==
    [window_min : Windows, dry_run : BOOLEAN, also_story : BOOLEAN]
NoRequest == [window_min |-> 0, dry_run |-> FALSE, also_story |-> FALSE]

\* the locals of a call that is not running
IdleCycle ==
    [schedule |-> <<>>, i |-> 0, changed |-> FALSE, called |-> FALSE,
     caught |-> <<>>, out |-> ""]

\* the credential check passing whatever the environment holds
CredentialsMissingNever(e) == FALSE

\* if not access_token or not ig_user_id
CredentialsMissing(e) == ~e.IG_ACCESS_TOKEN \/ ~e.IG_USER_ID

\* the skip also taken for a record that carries an error
AlreadyHandledOrFailed(rec) ==
    rec.published_at_iso # <<>> \/ rec.publish_error # <<>>

\* the skip of handled records never taken
AlreadyHandledNever(rec) == FALSE

\* if rec.get("published_at_iso"): continue
AlreadyHandled(rec) == rec.published_at_iso # <<>>

\* the record the loop of trigger t is at
Current(t) == cyc[t].schedule[cyc[t].i]

\* continue: on to the next record, with the current one replaced by rec; calls
\* are the outbound calls the pass made, caught the exception it caught
Continue(t, rec, mutated, calls, caught) ==
    cyc' = [cyc EXCEPT ![t].schedule[cyc[t].i] = rec,
                       ![t].i = @ + 1,
                       ![t].changed = @ \/ mutated,
                       ![t].called = (calls # <<>>),
                       ![t].caught = caught]

\* the except branch of the loop: post_one raised e
Failed(t, e, calls) ==
    Continue(t, StampError(Current(t), e, now), TRUE, calls, <<e>>)

\* one outbound call as the log of the attempt keeps it
Call(op, media_type, result) == <<op, media_type, result>>

\* lines 272-282: credentials, then load_schedule
ProcessStart(t) ==
    /\ pc[t] = "start"
    /\ IF CredentialsMissing(env)
       THEN /\ cyc' = [cyc EXCEPT ![t].out = "SystemExit"]
            /\ pc' = [pc EXCEPT ![t] = "end"]
       ELSE LET loaded == LoadSchedule(file, fileValid)
            IN  IF loaded.result = "raised"
                THEN /\ cyc' = [cyc EXCEPT ![t].out = "Exception"]
                     /\ pc' = [pc EXCEPT ![t] = "end"]
                ELSE IF loaded.records = <<>>
                THEN /\ cyc' = [cyc EXCEPT ![t].out = "False"]
                     /\ pc' = [pc EXCEPT ![t] = "end"]
                ELSE /\ cyc' = [cyc EXCEPT ![t].schedule = loaded.records,
                                           ![t].i = 1,
                                           ![t].changed = FALSE]
                     /\ pc' = [pc EXCEPT ![t] = "loop"]
    /\ UNCHANGED <<otherVars, now, env, shell, run_lock, last_status, file, fileValid, req,
                   resp, posted, runs>>

\* the three calls made one after the other whatever the one before gave
PostContainerEager(media_type, create, poll, publish) ==
    LET c == HttpRequest(create)
        w == WaitResult(poll)
        p == HttpRequest(publish)
        c3 == <<Call("create", media_type, c), Call("poll", media_type, w),
                Call("publish", media_type, p)>>
    IN  IF c # "returned" \/ p # "returned" THEN [error |-> <<"RequestError">>, calls |-> c3]
        ELSE IF w # "returned" THEN [error |-> <<w>>, calls |-> c3]
        ELSE [error |-> <<>>, calls |-> c3]

\* the three calls that post one container: create_media_container,
\* wait_until_processed, publish_media, each run only if the one before it
\* returned; create, poll and publish are the scripts the remote API follows
PostContainer(media_type, create, poll, publish) ==
    LET c == HttpRequest(create)
        w == WaitResult(poll)
        p == HttpRequest(publish)
        c1 == <<Call("create", media_type, c)>>
        c2 == Append(c1, Call("poll", media_type, w))
        c3 == Append(c2, Call("publish", media_type, p))
    IN  IF c # "returned" THEN [error |-> <<"RequestError">>, calls |-> c1]
        ELSE IF w # "returned" THEN [error |-> <<w>>, calls |-> c2]
        ELSE IF p # "returned" THEN [error |-> <<"RequestError">>, calls |-> c3]
        ELSE [error |-> <<>>, calls |-> c3]

\* every way the posting of one container can go
Postings(media_type) ==
    { PostContainer(media_type, create, poll, publish) :
        create \in HttpScripts,
        poll \in {q \in PollScripts : WaitResult(q) # "polling"},
        publish \in HttpScripts }
ReelPostings == Postings("REELS")
StoryPostings == Postings("STORIES")

\* post_one publishing even in dry-run mode
PostOneNoDryRun(rec, public_base_url, dry_run, also_story, reel, story) ==
    LET url == ResolveVideoUrl(rec, public_base_url)
        result == [creation_id |-> "REELS", media_id |-> "REELS", video_url |-> url[1]]
    IN  IF url = <<>>
        THEN [raised |-> <<"NoUrl">>, result |-> <<>>, calls |-> <<>>]
        ELSE IF reel.error # <<>>
        THEN [raised |-> reel.error, result |-> <<>>, calls |-> reel.calls]
        ELSE [raised |-> <<>>, result |-> <<result>>, calls |-> reel.calls]

\* post_one not stopping at a missing media URL
PostOneNoUrlCheck(rec, public_base_url, dry_run, also_story, reel, story) ==
    LET url == <<"derived">>
    IN  IF dry_run
        THEN [raised |-> <<>>,
              result |-> <<[video_url |-> url[1], also_story |-> also_story]>>,
              calls |-> <<>>]
        ELSE [raised |-> reel.error,
              result |-> IF reel.error = <<>>
                         THEN <<[creation_id |-> "REELS", media_id |-> "REELS",
                                 video_url |-> url[1]]>>
                         ELSE <<>>,
              calls |-> reel.calls]

\* post_one(rec, ...): what it raises (<<>> when it returns), what it returns,
\* and the outbound calls it made, in order; reel and story are the ways the
\* posting of the reel and of the story go if they are reached
PostOne(rec, public_base_url, dry_run, also_story, reel, story) ==
    LET url == ResolveVideoUrl(rec, public_base_url)
        result == [creation_id |-> "REELS", media_id |-> "REELS", video_url |-> url[1]]
    IN  IF url = <<>>
        THEN [raised |-> <<"NoUrl">>, result |-> <<>>, calls |-> <<>>]
        ELSE IF dry_run
        THEN [raised |-> <<>>,
              result |-> <<[video_url |-> url[1], also_story |-> also_story]>>,
              calls |-> <<>>]
        ELSE IF reel.error # <<>>
        THEN [raised |-> reel.error, result |-> <<>>, calls |-> reel.calls]
        ELSE IF ~also_story
        THEN [raised |-> <<>>, result |-> <<result>>, calls |-> reel.calls]
        ELSE IF story.error # <<>>
        THEN [raised |-> story.error, result |-> <<>>,
              calls |-> reel.calls \o story.calls]
        ELSE [raised |-> <<>>, result |-> <<result>>,
              calls |-> reel.calls \o story.calls]

InitPost == postIn = <<>> /\ postOut = <<>>

\* post_one called on a record with or without its own URL, and the remote
\* API following the given scripts for the reel and for the story
PostOneCall ==
    /\ postOut = <<>>
    /\ \E url \in Urls, base \in BOOLEAN, dry_run \in BOOLEAN, also_story \in BOOLEAN,
          rc \in HttpScripts, rw \in PollScripts, rp \in HttpScripts,
          sc \in HttpScripts, sw \in PollScripts, sp \in HttpScripts :
        /\ WaitResult(rw) # "polling"
        /\ WaitResult(sw) # "polling"
        /\ postIn' = <<[url |-> url, public_base_url |-> base, dry_run |-> dry_run,
                        also_story |-> also_story,
                        reel |-> [create |-> rc, poll |-> rw, publish |-> rp],
                        story |-> [create |-> sc, poll |-> sw, publish |-> sp]]>>
        /\ postOut' =
              <<PostOne(NewRecord(RecIds[1], <<IsoTime(1 + Kolkata, Kolkata)>>, url),
                        base, dry_run, also_story,
                        PostContainer("REELS", rc, rw, rp),
                        PostContainer("STORIES", sc, sw, sp))>>

\* the successful REELS media_publish calls among the calls of one attempt
ReelPublishes(calls) ==
    Cardinality({k \in 1..Len(calls) : calls[k] = Call("publish", "REELS", "returned")})

\* lines 285-323: one pass of the loop over the schedule
LoopNext(t) ==
    /\ pc[t] = "loop"
    /\ cyc[t].i <= Len(cyc[t].schedule)
    /\ LET rec == Current(t)
       IN  IF AlreadyHandled(rec)
           THEN Continue(t, rec, FALSE, <<>>, <<>>) /\ UNCHANGED posted
           ELSE IF rec.post_at_iso = <<>>
           THEN Continue(t, rec, FALSE, <<>>, <<>>) /\ UNCHANGED posted
           ELSE IF ~IsDue(rec.post_at_iso[1], req[t].window_min, now)
           THEN Continue(t, rec, FALSE, <<>>, <<>>) /\ UNCHANGED posted
           ELSE \E reel \in ReelPostings, story \in StoryPostings :
                LET out == PostOne(rec, env.PUBLIC_BASE_URL, req[t].dry_run,
                                   req[t].also_story, reel, story)
                    n == posted[rec.id] + ReelPublishes(out.calls)
                IN  /\ posted' = [posted EXCEPT ![rec.id] =
                                     IF n < MaxPosts THEN n ELSE MaxPosts]
                    /\ IF out.raised # <<>>
                       THEN Failed(t, out.raised[1], out.calls)
                       ELSE IF req[t].dry_run
                       THEN Continue(t, StampDryRun(rec, out.result[1], now),
                                     TRUE, out.calls, <<>>)
                       ELSE Continue(t, StampPublished(rec, out.result[1], now),
                                     TRUE, out.calls, <<>>)
    /\ UNCHANGED <<otherVars, now, env, shell, run_lock, last_status, file, fileValid, pc, req,
                   resp, runs>>

\* the end of the cycle writing the schedule whether or not a record changed
SaveAndReturnUnguarded(t) ==
    /\ pc[t] = "loop"
    /\ cyc[t].i > Len(cyc[t].schedule)
    /\ \/ /\ file' = cyc[t].schedule
          /\ fileValid' = fileValid
          /\ cyc' = [cyc EXCEPT ![t].out = IF cyc[t].changed THEN "True" ELSE "False"]
       \/ /\ file' = file
          /\ fileValid' \in BOOLEAN
          /\ cyc' = [cyc EXCEPT ![t].out = "Exception"]
    /\ pc' = [pc EXCEPT ![t] = "end"]
    /\ UNCHANGED <<otherVars, now, env, shell, run_lock, last_status, req, resp, posted, runs>>

\* lines 325-331: save_schedule if changed, and return changed.  A failing
\* save raises and leaves the file as it was or cut short
SaveAndReturn(t) ==
    /\ pc[t] = "loop"
    /\ cyc[t].i > Len(cyc[t].schedule)
    /\ \/ /\ file' = IF cyc[t].changed THEN cyc[t].schedule ELSE file
          /\ fileValid' = fileValid
          /\ cyc' = [cyc EXCEPT ![t].out = IF cyc[t].changed THEN "True" ELSE "False"]
       \/ /\ cyc[t].changed
          /\ file' = file
          /\ fileValid' \in BOOLEAN
          /\ cyc' = [cyc EXCEPT ![t].out = "Exception"]
    /\ pc' = [pc EXCEPT ![t] = "end"]
    /\ UNCHANGED <<otherVars, now, env, shell, run_lock, last_status, req, resp, posted, runs>>

----------------------------------------------------------------------------
(* Service shells *)

Shells == {"server_runner", "app"}

\* the module-level last_status of each shell
InitialStatus(sh) ==
    IF sh = "app"
    THEN [ran |-> FALSE, error |-> <<>>]
    ELSE [started_at |-> <<>>, finished_at |-> <<>>, ran |-> FALSE,
          changed |-> FALSE, error |-> <<>>]

\* a lock test that always finds the lock free
LockedNever(lock) == FALSE

\* run_lock.locked(), and the failure of run_lock.acquire(blocking=False)
Locked(lock) == lock # <<>>

\* leaving the lock held at the end of a run
ReleaseNothing(lock, t) == lock

\* run_lock.release(), and the exit of "with run_lock"
Release(lock, t) == <<>>

\* post-service/app.py run(): the non-blocking acquire, busy when it fails
AppRun(t) ==
    /\ shell = "app"
    /\ pc[t] = "idle"
    /\ runs < MaxRuns
    /\ \E r \in Requests :
        IF Locked(run_lock)
        THEN /\ resp' = [resp EXCEPT ![t] = <<"busy">>]
             /\ UNCHANGED <<run_lock, pc, req, runs>>
        ELSE /\ run_lock' = <<t>>
             /\ req' = [req EXCEPT ![t] = r]
             /\ resp' = [resp EXCEPT ![t] = <<>>]
             /\ pc' = [pc EXCEPT ![t] = "start"]
             /\ runs' = runs + 1
    /\ UNCHANGED <<otherVars, now, env, shell, last_status, file, fileValid, cyc, posted>>

\* post-service/app.py run(): after process_due_items, the try's return, the
\* except Exception branch, and the finally
AppFinish(t) ==
    /\ shell = "app"
    /\ pc[t] = "end"
    /\ LET out == cyc[t].out
       IN  IF out \in {"True", "False"}
           THEN /\ last_status' = [last_status EXCEPT !.ran = TRUE, !.error = <<>>]
                /\ resp' = [resp EXCEPT ![t] = <<"ok", out>>]
           ELSE IF out = "Exception"
           THEN /\ last_status' = [last_status EXCEPT !.ran = TRUE, !.error = <<out>>]
                /\ resp' = [resp EXCEPT ![t] = <<"500">>]
           ELSE \* SystemExit is no Exception: it leaves run() uncaught
                /\ last_status' = last_status
                /\ resp' = [resp EXCEPT ![t] = <<"SystemExit">>]
    /\ run_lock' = Release(run_lock, t)
    /\ pc' = [pc EXCEPT ![t] = "idle"]
    /\ req' = [req EXCEPT ![t] = NoRequest]
    /\ cyc' = [cyc EXCEPT ![t] = IdleCycle]
    /\ UNCHANGED <<otherVars, now, env, shell, file, fileValid, posted, runs>>

\* server_runner.py run(): the bearer check, the locked() test, add_task(job)
SrvRun(t) ==
    /\ shell = "server_runner"
    /\ pc[t] = "idle"
    /\ runs < MaxRuns
    /\ \E r \in Requests, unauthorized \in BOOLEAN :
        \* unauthorized: JOB_TOKEN is set and the Authorization header is not its bearer
        IF unauthorized
        THEN /\ resp' = [resp EXCEPT ![t] = <<"401">>]
             /\ UNCHANGED <<pc, req, runs>>
        ELSE IF Locked(run_lock)
        THEN /\ resp' = [resp EXCEPT ![t] = <<"busy">>]
             /\ UNCHANGED <<pc, req, runs>>
        ELSE /\ resp' = [resp EXCEPT ![t] = <<"accepted">>]
             /\ req' = [req EXCEPT ![t] = r]
             /\ pc' = [pc EXCEPT ![t] = "queued"]
             /\ runs' = runs + 1
    /\ UNCHANGED <<otherVars, now, env, shell, run_lock, last_status, file, fileValid, cyc,
                   posted>>

\* server_runner.py job(): "with run_lock" waits for the lock, then the first
\* update of _do_run
SrvJob(t) ==
    /\ shell = "server_runner"
    /\ pc[t] = "queued"
    /\ ~Locked(run_lock)
    /\ run_lock' = <<t>>
    /\ last_status' = [started_at |-> <<now>>, finished_at |-> <<>>, ran |-> TRUE,
                       changed |-> FALSE, error |-> <<>>]
    /\ pc' = [pc EXCEPT ![t] = "start"]
    /\ UNCHANGED <<otherVars, now, env, shell, file, fileValid, req, resp, cyc, posted, runs>>

\* server_runner.py _do_run(): after process_due_items, the try's update or the
\* except Exception branch; then the exit of "with run_lock"
SrvFinish(t) ==
    /\ shell = "server_runner"
    /\ pc[t] = "end"
    /\ LET out == cyc[t].out
       IN  IF out \in {"True", "False"}
           THEN last_status' = [last_status EXCEPT !.changed = (out = "True"),
                                                   !.finished_at = <<now>>]
           ELSE IF out = "Exception"
           THEN last_status' = [last_status EXCEPT !.error = <<out>>,
                                                   !.finished_at = <<now>>]
           ELSE \* SystemExit is no Exception: it leaves _do_run uncaught
                last_status' = last_status
    /\ run_lock' = Release(run_lock, t)
    /\ pc' = [pc EXCEPT ![t] = "idle"]
    /\ req' = [req EXCEPT ![t] = NoRequest]
    /\ cyc' = [cyc EXCEPT ![t] = IdleCycle]
    /\ UNCHANGED <<otherVars, now, env, shell, file, fileValid, resp, posted, runs>>

----------------------------------------------------------------------------
(* The service: one shell process, its triggers, the clock *)

Envs ==
    [IG_ACCESS_TOKEN : BOOLEAN, IG_USER_ID : BOOLEAN, PUBLIC_BASE_URL : BOOLEAN]

InitDue == dueIn = <<>> /\ dueOut = FALSE

\* the state of a fresh process of one of the shells, in one of the
\* environments, serving the triggers, with one of the schedules on disk
InitService(envs, shells, triggers, schedules) ==
    /\ now = 0
    /\ env \in envs
    /\ shell \in shells
    /\ run_lock = <<>>
    /\ last_status = InitialStatus(shell)
    /\ \E choice \in schedules : file = InitialFile(choice)
    /\ fileValid = TRUE
    /\ pc = [t \in triggers |-> "idle"]
    /\ req = [t \in triggers |-> NoRequest]
    /\ resp = [t \in triggers |-> <<>>]
    /\ cyc = [t \in triggers |-> IdleCycle]
    /\ posted = [k \in {RecIds[j] : j \in 1..Len(RecIds)} |-> 0]
    /\ runs = 0
    /\ InitDue /\ InitHttp /\ InitPoll /\ InitPost

\* time passes
Tick ==
    /\ now < MaxTime
    /\ now' = now + 1
    /\ UNCHANGED <<serviceVars, dueVars, httpVars, pollVars, postVars>>

(* Cycles run one after another: post-service/app.py with one trigger at a  *)
(* time, over every schedule of up to Len(RecIds) records.                  *)
Init == InitService(Envs, {"app"}, {"t1"}, Schedules)

Next ==
    \/ Tick
    \/ \E t \in DOMAIN pc : AppRun(t)
    \/ \E t \in DOMAIN pc : AppFinish(t)
    \/ \E t \in DOMAIN pc : ProcessStart(t)
    \/ \E t \in DOMAIN pc : LoopNext(t)
    \/ \E t \in DOMAIN pc : SaveAndReturn(t)

Spec == Init /\ [][Next]_vars

(* Both shells under concurrent triggers, over the schedules of at most one *)
(* record.                                                                  *)
InitShells ==
    InitService(Envs, Shells, Triggers, {c \in Schedules : Len(c) <= 1})

NextShells ==
    \/ Tick
    \/ \E t \in DOMAIN pc : AppRun(t)
    \/ \E t \in DOMAIN pc : AppFinish(t)
    \/ \E t \in DOMAIN pc : SrvRun(t)
    \/ \E t \in DOMAIN pc : SrvJob(t)
    \/ \E t \in DOMAIN pc : SrvFinish(t)
    \/ \E t \in DOMAIN pc : ProcessStart(t)
    \/ \E t \in DOMAIN pc : LoopNext(t)
    \/ \E t \in DOMAIN pc : SaveAndReturn(t)

SpecShells == InitShells /\ [][NextShells]_vars

\* what the thread of trigger t does once it is let in: the queued job takes
\* the lock when it is free, the cycle runs, the shell finishes
Proceeds(t) ==
    \/ SrvJob(t)
    \/ ProcessStart(t)
    \/ LoopNext(t)
    \/ SaveAndReturn(t)
    \/ AppFinish(t)
    \/ SrvFinish(t)

(* Both shells, with threads that are scheduled: a thread that can go on     *)
(* does.  Every step of a cycle ends: the loops are bounded, each request    *)
(* times out, the poll has its ceiling.                                      *)
SpecShellsFair == SpecShells /\ \A t \in Triggers : WF_vars(Proceeds(t))

----------------------------------------------------------------------------
(* The pure parts on their own: is_due, http_request, wait_until_processed *)

\* a process with everything set, no trigger running and no schedule
Quiet ==
    InitService({[IG_ACCESS_TOKEN |-> TRUE, IG_USER_ID |-> TRUE,
                  PUBLIC_BASE_URL |-> TRUE]}, {"app"}, {"t1"}, {<<>>})

\* the arguments is_due is tried on: the instant a scheduled time denotes, the
\* UTC offset it is written with, and the window in minutes
Instants == (0 - 2 * TicksPerMin - 1)..(MaxTime + 1)
UtcOffsets == {(0 - 300) * TicksPerMin, 0, Kolkata}
DueWindows == {0 - 1, 0, 1, 2}

\* is_due called at the present time on the instant u written with offset o
IsDueCall ==
    /\ \E u \in Instants, o \in UtcOffsets, w \in DueWindows :
        /\ dueIn' = <<[utc |-> u, off |-> o, window |-> w, at |-> now]>>
        /\ dueOut' = IsDue(IsoTime(u + o, o), w, now)
    /\ UNCHANGED <<now, serviceVars, httpVars, pollVars, postVars>>

NextIsDue == Tick \/ IsDueCall

SpecIsDue == Quiet /\ [][NextIsDue]_vars

\* one http_request call, attempt by attempt
HttpRun == HttpAttempt /\ UNCHANGED <<now, serviceVars, dueVars, pollVars, postVars>>

SpecHttp == Quiet /\ [][HttpRun]_vars

\* one wait_until_processed call, pass by pass; the loop does not stall
PollRun == PollOnce /\ UNCHANGED <<now, serviceVars, dueVars, httpVars, postVars>>

SpecPoll == Quiet /\ [][PollRun]_vars /\ WF_vars(PollRun)

\* one post_one call, made once
PostOneRun == PostOneCall /\ UNCHANGED <<now, serviceVars, dueVars, httpVars, pollVars>>

SpecPostOne == Quiet /\ [][PostOneRun]_vars

----------------------------------------------------------------------------
(* Claims *)

\* the triggers whose call of process_due_items is in progress
Running == {t \in DOMAIN pc : pc[t] \in {"start", "loop"}}

\* the triggers that were let in and whose run has not ended yet
InFlight == {t \in DOMAIN pc : pc[t] # "idle"}

\* C1: in both shells, under every interleaving of triggers, at most one call
\* of process_due_items is in progress, and whoever is in it, or has just left
\* it and not yet answered, holds run_lock.
C1_OneCycleAtATime ==
    /\ Cardinality(Running) <= 1
    /\ \A t \in DOMAIN pc : pc[t] \in {"start", "loop", "end"} => run_lock = <<t>>

\* C1 witness: a cycle is running while the other trigger's job waits for the lock
C1_Witness ==
    \E t, u \in DOMAIN pc : t # u /\ pc[t] = "loop" /\ pc[u] = "queued"

\* C2: a trigger that arrives while another is in flight is answered busy: it
\* is never let in, queued or left waiting, so no two triggers are ever in
\* flight together.
C2_SecondIsBusy == Cardinality(InFlight) <= 1

\* a scheduled instant lies inside the one-minute-per-unit window ending now
InWindow(rec, window_min) ==
    LET delta == now - (rec.post_at_iso[1].wall - rec.post_at_iso[1].off)
    IN  delta >= 0 /\ delta < window_min * TicksPerMin

\* C3: a record that is published on disk is never re-processed: the file
\* keeps it as it is, a cycle passes over it without an outbound call and
\* without touching it, and a cycle over a file of published records only
\* returns False and writes nothing.
C3_PublishedNeverReprocessed ==
    [][ /\ \A k \in 1..Len(file) :
            file[k].published_at_iso # <<>> =>
                Len(file') >= k /\ file'[k] = file[k]
        /\ \A t \in DOMAIN pc :
            /\ ( /\ pc[t] = "loop"
                 /\ cyc'[t] # cyc[t]
                 /\ cyc[t].i <= Len(cyc[t].schedule)
                 /\ file[cyc[t].i].published_at_iso # <<>> )
               => /\ cyc'[t].schedule = cyc[t].schedule
                  /\ cyc'[t].i = cyc[t].i + 1
                  /\ cyc'[t].changed = cyc[t].changed
                  /\ ~cyc'[t].called
                  /\ posted' = posted
            /\ ( /\ pc[t] \in {"start", "loop"}
                 /\ pc'[t] = "end"
                 /\ fileValid /\ env.IG_ACCESS_TOKEN /\ env.IG_USER_ID
                 /\ \A k \in 1..Len(file) : file[k].published_at_iso # <<>> )
               => cyc'[t].out = "False" /\ file' = file
      ]_vars

\* C3 witness: a cycle has passed over a record that is published on disk and
\* still inside its window
C3_Witness ==
    \E t \in DOMAIN pc :
        /\ pc[t] = "loop"
        /\ cyc[t].i > 1
        /\ file[cyc[t].i - 1].published_at_iso # <<>>
        /\ InWindow(file[cyc[t].i - 1], req[t].window_min)

Pass(t) ==
    /\ pc[t] = "loop"
    /\ cyc[t].i <= Len(cyc[t].schedule)
    /\ cyc'[t] # cyc[t]

\* the record the pass of t is about, before and after it
Before(t) == cyc[t].schedule[cyc[t].i]
After(t) == cyc'[t].schedule[cyc[t].i]

\* the pass of t leaves every other record of the schedule as it is
OthersKept(t) ==
    /\ Len(cyc'[t].schedule) = Len(cyc[t].schedule)
    /\ \A j \in 1..Len(cyc[t].schedule) :
        j # cyc[t].i => cyc'[t].schedule[j] = cyc[t].schedule[j]

\* the record of the pass is unpublished, scheduled and inside the window
DueNow(t) ==
    /\ Before(t).published_at_iso = <<>>
    /\ Before(t).post_at_iso # <<>>
    /\ InWindow(Before(t), req[t].window_min)

\* C5: a pass whose attempt fails leaves publish_error and the attempt time
\* on the record, published_at_iso unset and the other records alone, and
\* goes on to the next record; the cycle ends only after the last record, and
\* then writes the schedule and returns True (or raises, if the write itself
\* fails).
C5_FailureIsPerRecord ==
    [][ \A t \in DOMAIN pc :
          /\ (Pass(t) /\ cyc'[t].caught # <<>>) =>
                /\ pc'[t] = "loop"
                /\ cyc'[t].i = cyc[t].i + 1
                /\ After(t).publish_error # <<>>
                /\ After(t).publish_attempted_at_iso = <<now>>
                /\ After(t).published_at_iso = <<>>
                /\ OthersKept(t)
                /\ cyc'[t].changed
          /\ (pc[t] = "loop" /\ pc'[t] = "end") =>
                /\ cyc[t].i > Len(cyc[t].schedule)
                /\ cyc[t].changed =>
                      \/ cyc'[t].out = "True" /\ file' = cyc[t].schedule
                      \/ cyc'[t].out = "Exception"
      ]_vars

\* C5 witness: the first cycle over two records, both attempts failed, the
\* second by a poll timeout, and the cycle has saved and returned True
C5_Witness ==
    \E t \in DOMAIN pc :
        /\ runs = 1
        /\ pc[t] = "end"
        /\ cyc[t].out = "True"
        /\ Len(file) = 2
        /\ file = cyc[t].schedule
        /\ file[1].publish_error # <<>>
        /\ file[2].publish_error # <<>>
        /\ cyc[t].caught = <<"TimeoutError">>

\* C6: with the access token or the account id missing, nothing happens but
\* the SystemExit: the file is neither read nor written, no record is loaded
\* or passed over, no outbound call is made.
C6_MissingCredentialsFailFast ==
    [][ (~env.IG_ACCESS_TOKEN \/ ~env.IG_USER_ID) =>
          /\ file' = file
          /\ fileValid' = fileValid
          /\ posted' = posted
          /\ \A t \in DOMAIN pc :
                /\ cyc'[t].schedule = <<>>
                /\ cyc'[t].i = 0
                /\ ~cyc'[t].called
                /\ ~cyc'[t].changed
                /\ pc'[t] \in {"idle", "start", "end"}
                /\ pc'[t] = "end" => cyc'[t].out = "SystemExit"
      ]_vars

\* C6 witness: a cycle ended in SystemExit although a record on disk is due
C6_Witness ==
    \E t \in DOMAIN pc :
        /\ ~env.IG_ACCESS_TOKEN
        /\ pc[t] = "end"
        /\ cyc[t].out = "SystemExit"
        /\ Len(file) > 0
        /\ file[1].published_at_iso = <<>>
        /\ file[1].post_at_iso # <<>>
        /\ InWindow(file[1], req[t].window_min)

\* C7 as claimed: a due record with no media URL source is fatal to the cycle:
\* no record is mutated in that cycle, and the cycle ends by raising.
C7_MissingUrlIsFatal ==
    \A t \in DOMAIN pc :
        cyc[t].caught = <<"NoUrl">> =>
            /\ ~cyc[t].changed
            /\ pc[t] = "end" => cyc[t].out = "Exception"

\* C7 as amended: a due record with no media URL source is a failure of that
\* record only: the pass makes no outbound call, leaves publish_error and the
\* attempt time on the record and published_at_iso unset, and goes on to the
\* next record; the cycle then writes the schedule and returns True (or
\* raises, if the write itself fails).
C7_MissingUrlIsPerRecord ==
    [][ \A t \in DOMAIN pc :
          /\ ( /\ Pass(t)
               /\ DueNow(t)
               /\ Before(t).public_video_url = <<>>
               /\ ~env.PUBLIC_BASE_URL ) =>
                /\ After(t) = [Before(t) EXCEPT
                                  !.publish_error = <<"No public_video_url">>,
                                  !.publish_attempted_at_iso = <<now>>]
                /\ OthersKept(t)
                /\ ~cyc'[t].called
                /\ posted' = posted
                /\ pc'[t] = "loop"
                /\ cyc'[t].i = cyc[t].i + 1
                /\ cyc'[t].changed
          /\ ( /\ pc[t] = "loop"
               /\ pc'[t] = "end"
               /\ cyc[t].caught = <<"NoUrl">> ) =>
                \/ cyc'[t].out = "True" /\ file' = cyc[t].schedule
                \/ cyc'[t].out = "Exception"
      ]_vars

\* C7 witness: in one cycle the first record failed for want of a URL source,
\* the second was published, and the cycle saved and returned True
C7_Witness ==
    \E t \in DOMAIN pc :
        /\ runs = 1
        /\ ~env.PUBLIC_BASE_URL
        /\ pc[t] = "end"
        /\ cyc[t].out = "True"
        /\ Len(file) = 2
        /\ file = cyc[t].schedule
        /\ file[1].publish_error = <<"No public_video_url">>
        /\ file[1].published_at_iso = <<>>
        /\ file[2].published_at_iso # <<>>

\* a response after which http_request goes round again, and an ok response
Retryable(r) == r = <<>> \/ r[1] \in {429, 500, 502, 503, 504}
Success(r) == r # <<>> /\ r[1] = 200

\* what C8 and its amendment share: at most five attempts, none after the
\* fifth; every attempt but the last one answered by a network failure or a
\* 429/500/502/503/504; any other status that is not ok ends in a raise, and
\* so does a fifth retryable failure.
HttpBounded ==
    LET n == Len(hLog)
    IN  /\ n <= 5
        /\ hState = "loop" => n < 5
        /\ hState # "loop" => n > 0
        /\ \A k \in 1..n : (k < n \/ hState = "loop") => Retryable(hLog[k])
        /\ (n > 0 /\ ~Retryable(hLog[n]) /\ ~Success(hLog[n])) => hState = "raised"
        /\ (n = 5 /\ Retryable(hLog[n])) => hState = "raised"

\* C8 as claimed: one call makes at most five attempts and ends; it returns
\* at the first ok status, and only then; it retries only after a network
\* failure or a retryable status; any other status and five retryable
\* failures in a row end in a raise.
C8_ReturnsAtFirstSuccess ==
    LET n == Len(hLog)
    IN  /\ HttpBounded
        /\ hState = "returned" <=> (n > 0 /\ Success(hLog[n]))

\* C8 as amended: as claimed, except that the first ok status ends the call
\* either way: it returns when the body is blank or JSON, and raises, with no
\* further attempt, when the body cannot be parsed.
C8_EndsAtFirstSuccess ==
    LET n == Len(hLog)
    IN  /\ HttpBounded
        /\ hState = "returned" <=> (n > 0 /\ Success(hLog[n]) /\ hLog[n][2] # "text")
        /\ (n > 0 /\ Success(hLog[n]) /\ hLog[n][2] = "text") => hState = "raised"

\* C8 witness: four retryable failures of mixed kinds, then a fifth: raised
C8_Witness ==
    /\ Len(hLog) = 5
    /\ hLog[1] = <<>>
    /\ hLog[2] = <<429, "json">>
    /\ hLog[5] = <<503, "json">>
    /\ hState = "raised"
    /\ hSlept = 62

\* C9: the poll loop ends; it returns only on a poll that reports FINISHED,
\* raises RuntimeError on a poll that reports ERROR, raises TimeoutError only
\* when more than 600 s have passed and the last status is neither, and never
\* goes round again once the 600 s are over; a status request that raises
\* ends it as well.
C9_PollEnds ==
    /\ [](/\ pState = "returned" => pLast = <<"returned", "FINISHED">>
          /\ pLast = <<"returned", "FINISHED">> => pState = "returned"
          /\ pLast = <<"returned", "ERROR">> => pState = "RuntimeError"
          /\ pState = "RuntimeError" => pLast = <<"returned", "ERROR">>
          /\ pState = "TimeoutError" =>
                /\ pElapsed > 600
                /\ pLast[1] = "returned"
                /\ pLast[2] \notin {"FINISHED", "ERROR"}
          /\ pState = "polling" => pElapsed <= 600 + 6
          /\ (pLast # <<>> /\ pLast[1] = "raised") <=> pState = "RequestError")
    /\ <>(pState # "polling")

\* C9 witness: the poll has ended in TimeoutError on a status the code does not
\* know
C9_Witness ==
    /\ pState = "TimeoutError"
    /\ pLast = <<"returned", "EXPIRED">>

\* C10 as claimed: a pass in dry-run mode makes no outbound call, and every due
\* record gets dry_run_info and the attempt time, with published_at_iso and
\* the ig ids left unset.
C10_DryRunAnnotatesEveryDue ==
    [][ \A t \in DOMAIN pc :
          (Pass(t) /\ req[t].dry_run) =>
                /\ ~cyc'[t].called
                /\ posted' = posted
                /\ DueNow(t) =>
                      /\ After(t).dry_run_info # <<>>
                      /\ After(t).publish_attempted_at_iso = <<now>>
                      /\ After(t).published_at_iso = <<>>
                      /\ After(t).ig_creation_id = <<>>
                      /\ After(t).ig_media_id = <<>>
      ]_vars

\* C10 as amended: a pass in dry-run mode makes no outbound call and touches
\* only its own record.  A due record whose media URL resolves gets
\* dry_run_info (the URL, and also_story when on) and the attempt time; a due
\* record with no media URL source gets publish_error and the attempt time and
\* no dry_run_info; in both cases published_at_iso and the ig ids stay unset.
\* A record that is not due is left as it is.
C10_DryRunAnnotatesResolvable ==
    [][ \A t \in DOMAIN pc :
          (Pass(t) /\ req[t].dry_run) =>
                /\ ~cyc'[t].called
                /\ posted' = posted
                /\ OthersKept(t)
                /\ After(t).published_at_iso = Before(t).published_at_iso
                /\ After(t).ig_creation_id = Before(t).ig_creation_id
                /\ After(t).ig_media_id = Before(t).ig_media_id
                /\ ~DueNow(t) => After(t) = Before(t)
                /\ (DueNow(t) /\ Before(t).public_video_url # <<>>) =>
                      After(t) = [Before(t) EXCEPT
                         !.dry_run_info =
                            <<[video_url |-> Before(t).public_video_url[1],
                               also_story |-> req[t].also_story]>>,
                         !.publish_attempted_at_iso = <<now>>]
                /\ ( /\ DueNow(t)
                     /\ Before(t).public_video_url = <<>>
                     /\ env.PUBLIC_BASE_URL ) =>
                      After(t) = [Before(t) EXCEPT
                         !.dry_run_info =
                            <<[video_url |-> "derived",
                               also_story |-> req[t].also_story]>>,
                         !.publish_attempted_at_iso = <<now>>]
                /\ ( /\ DueNow(t)
                     /\ Before(t).public_video_url = <<>>
                     /\ ~env.PUBLIC_BASE_URL ) =>
                      /\ After(t).dry_run_info = Before(t).dry_run_info
                      /\ After(t).publish_error # <<>>
                      /\ After(t).publish_attempted_at_iso = <<now>>
      ]_vars

\* C10 witness: a dry-run cycle with also_story on has ended and saved: the
\* due record carries dry_run_info and the attempt time, is still
\* unpublished, and nothing was posted
C10_Witness ==
    \E t \in DOMAIN pc :
        /\ runs = 1
        /\ pc[t] = "end"
        /\ req[t].dry_run
        /\ req[t].also_story
        /\ cyc[t].out = "True"
        /\ Len(file) > 0
        /\ file[1].dry_run_info # <<>>
        /\ file[1].publish_attempted_at_iso # <<>>
        /\ file[1].published_at_iso = <<>>
        /\ file[1].ig_media_id = <<>>
        /\ \A id \in DOMAIN posted : posted[id] = 0

\* a record a cycle with this window passes over at the present time:
\* published, unscheduled, or outside the window
NotDue(rec, window_min) ==
    \/ rec.published_at_iso # <<>>
    \/ rec.post_at_iso = <<>>
    \/ ~InWindow(rec, window_min)

\* trigger t's call of process_due_items ends in this step
Ends(t) == pc[t] \in {"start", "loop"} /\ pc'[t] = "end"

\* C11: the changed flag is set exactly by the passes that attempt a record,
\* and a pass that attempts none leaves its record as it is; the file is
\* touched only at the end of a cycle whose flag is set; a cycle that returns,
\* returns the flag, True after writing the whole list and False with the file
\* untouched; and a cycle that starts and ends at the same clock reading over
\* a file with no due record returns False and leaves the file, so that the
\* next one finds what this one found.
C11_WritesIffMutated ==
    [][ /\ file' # file =>
              \E t \in DOMAIN pc : pc[t] = "loop" /\ pc'[t] = "end" /\ cyc[t].changed
        /\ \A t \in DOMAIN pc :
              /\ Pass(t) =>
                    /\ cyc'[t].changed = (cyc[t].changed \/ DueNow(t))
                    /\ ~DueNow(t) => After(t) = Before(t)
              /\ Ends(t) =>
                    /\ cyc'[t].changed = cyc[t].changed
                    /\ cyc'[t].out = "True" => cyc[t].changed /\ file' = cyc[t].schedule
                    /\ cyc'[t].out = "False" => ~cyc[t].changed /\ file' = file
                    /\ ~cyc[t].changed => file' = file /\ fileValid' = fileValid
                    /\ (pc[t] = "loop" /\ cyc[t].changed) =>
                          cyc'[t].out \in {"True", "Exception"}
                    /\ (pc[t] = "loop" /\ ~cyc[t].changed) => cyc'[t].out = "False"
              /\ ( /\ Ends(t)
                   /\ shell = "server_runner"
                   /\ last_status.started_at = <<now>>
                   /\ fileValid /\ ~CredentialsMissing(env)
                   /\ \A k \in 1..Len(file) : NotDue(file[k], req[t].window_min) ) =>
                    /\ cyc'[t].out = "False"
                    /\ file' = file
                    /\ \A k \in 1..Len(file') : NotDue(file'[k], req[t].window_min)
      ]_vars

\* C11 witness: with the clock still at its first reading, the second cycle
\* over a scheduled, unpublished record that is not due yet has returned False,
\* and the record on disk is as the generator wrote it
C11_Witness ==
    \E t \in DOMAIN pc :
        /\ shell = "server_runner"
        /\ runs = 2
        /\ now = 0
        /\ pc[t] = "end"
        /\ \A u \in DOMAIN pc : u # t => pc[u] = "idle"
        /\ cyc[t].out = "False"
        /\ last_status.started_at = <<now>>
        /\ Len(file) = 1
        /\ file[1].post_at_iso # <<>>
        /\ file[1] = NewRecord(file[1].id, file[1].post_at_iso, file[1].public_video_url)

\* the three outcomes of a pass over an unpublished record, as C12 names them
LeftPending(t) ==
    /\ ~DueNow(t)
    /\ After(t) = Before(t)
    /\ cyc'[t].changed = cyc[t].changed
    /\ ~cyc'[t].called
BecamePublished(t) ==
    /\ DueNow(t)
    /\ cyc'[t].caught = <<>>
    /\ After(t).published_at_iso = <<now>>
    /\ After(t).ig_creation_id # <<>>
    /\ After(t).ig_media_id # <<>>
    /\ cyc'[t].changed
BecamePendingWithError(t) ==
    /\ DueNow(t)
    /\ cyc'[t].caught # <<>>
    /\ After(t).publish_error # <<>>
    /\ After(t).published_at_iso = <<>>
    /\ cyc'[t].changed

\* the outcome of a dry-run pass over a due record whose media URL resolves
BecamePreviewed(t) ==
    /\ DueNow(t)
    /\ cyc'[t].caught = <<>>
    /\ ~cyc'[t].called
    /\ After(t).dry_run_info # <<>>
    /\ After(t).published_at_iso = <<>>
    /\ cyc'[t].changed

\* C12 as claimed: every pass over an unpublished record ends in one of three
\* outcomes: not due and unchanged; due, no step failed, published with the
\* publish time and both remote ids; due, the attempt failed, publish_error
\* set and published_at_iso unset.
C12_ThreeOutcomes ==
    [][ \A t \in DOMAIN pc :
          (Pass(t) /\ Before(t).published_at_iso = <<>>) =>
              \/ LeftPending(t)
              \/ BecamePublished(t)
              \/ BecamePendingWithError(t)
      ]_vars

\* C12 as amended: in a cycle that is not a dry run every pass over an
\* unpublished record ends in exactly one of the three outcomes, and a due
\* record is published exactly when no step of its attempt failed, after an
\* outbound call; in a dry-run cycle the second outcome is replaced by a
\* fourth: due, previewed (dry_run_info), still unpublished, no outbound call.
C12_OutcomesByMode ==
    [][ \A t \in DOMAIN pc :
          (Pass(t) /\ Before(t).published_at_iso = <<>>) =>
              /\ ~req[t].dry_run =>
                    /\ \/ LeftPending(t)
                       \/ BecamePublished(t) /\ cyc'[t].called
                       \/ BecamePendingWithError(t)
                    /\ ~(LeftPending(t) /\ BecamePublished(t))
                    /\ ~(LeftPending(t) /\ BecamePendingWithError(t))
                    /\ ~(BecamePublished(t) /\ BecamePendingWithError(t))
              /\ req[t].dry_run =>
                    /\ \/ LeftPending(t)
                       \/ BecamePreviewed(t)
                       \/ BecamePendingWithError(t)
                    /\ ~BecamePublished(t)
      ]_vars

\* C12 witness: one cycle that is not a dry run has published its first record
\* and left its second pending with an error
C12_Witness ==
    \E t \in DOMAIN pc :
        /\ runs = 1
        /\ pc[t] = "end"
        /\ ~req[t].dry_run
        /\ Len(file) = 2
        /\ file = cyc[t].schedule
        /\ file[1].published_at_iso # <<>>
        /\ file[1].ig_media_id # <<>>
        /\ file[1].publish_error = <<>>
        /\ file[2].publish_error = <<"remote step failed">>
        /\ file[2].published_at_iso = <<>>

\* C13: a cycle passes over each record once, in order, and ends only after
\* the last one, so a record whose attempt failed is not attempted again
\* before the cycle ends and is kept as the failure left it; and whenever a
\* pass finds a record due and unpublished, it attempts it, whether or not the
\* record carries publish_error from an earlier cycle: the attempt time is
\* stamped anew, and the attempt either fails again or goes through.
C13_FailedRetriedNextCycle ==
    [][ \A t \in DOMAIN pc :
          /\ Pass(t) =>
                /\ cyc'[t].i = cyc[t].i + 1
                /\ OthersKept(t)
          /\ (pc[t] = "loop" /\ pc'[t] = "end") => cyc[t].i > Len(cyc[t].schedule)
          /\ (pc[t] = "start" /\ pc'[t] = "loop") =>
                cyc'[t].i = 1 /\ cyc'[t].schedule = file
          /\ (Pass(t) /\ DueNow(t)) =>
                /\ After(t).publish_attempted_at_iso = <<now>>
                /\ cyc'[t].changed
                /\ \/ cyc'[t].caught # <<>> /\ After(t).publish_error # <<>>
                   \/ cyc'[t].caught = <<>> /\ req[t].dry_run
                                            /\ After(t).dry_run_info # <<>>
                   \/ cyc'[t].caught = <<>> /\ ~req[t].dry_run
                                            /\ cyc'[t].called
                                            /\ After(t).published_at_iso = <<now>>
      ]_vars

\* C13 witness: the second cycle has just published a record that the file
\* still shows as failed by the first cycle
C13_Witness ==
    \E t \in DOMAIN pc :
        /\ runs = 2
        /\ pc[t] = "loop"
        /\ cyc[t].i = 2
        /\ file[1].publish_error # <<>>
        /\ file[1].published_at_iso = <<>>
        /\ cyc[t].schedule[1].published_at_iso # <<>>
        /\ cyc[t].called

\* an unpublished record whose scheduled instant is a whole window or more
\* before the clock reading
MissedAt(rec, window_min, clock) ==
    /\ rec.published_at_iso = <<>>
    /\ rec.post_at_iso # <<>>
    /\ clock - (rec.post_at_iso[1].wall - rec.post_at_iso[1].off)
          >= window_min * TicksPerMin

Aborted(t, ways) == pc[t] = "end" /\ pc'[t] = "idle" /\ cyc[t].out \in ways

\* what C15 asks of the shell in the step that ends such a run: in app.py an
\* error response (an exception that leaves run() counts as one) and
\* last_status.error set; in server_runner.py last_status with error and
\* finished_at set
Surfaced(t) ==
    /\ shell = "app" =>
          /\ resp'[t] \in {<<"500">>, <<"SystemExit">>}
          /\ last_status'.error # <<>>
    /\ shell = "server_runner" =>
          /\ last_status'.error # <<>>
          /\ last_status'.finished_at # <<>>

\* C15: a cycle that aborts for missing credentials (SystemExit) or for an
\* unreadable or unwritable schedule (Exception) is surfaced by its shell.
C15_AbortIsSurfaced ==
    [][ \A t \in DOMAIN pc :
          Aborted(t, {"SystemExit", "Exception"}) => Surfaced(t) ]_vars

\* the remote calls of a full attempt, in the order C16 gives them
CallOrder ==
    << <<"create", "REELS">>, <<"poll", "REELS">>, <<"publish", "REELS">>,
       <<"create", "STORIES">>, <<"poll", "STORIES">>, <<"publish", "STORIES">> >>

\* a processing poll whose last status request reported FINISHED
ReportedFinished(script) ==
    \E k \in 1..Len(script) :
        /\ script[k].h = "returned"
        /\ script[k].st = "FINISHED"
        /\ \A j \in 1..(k - 1) :
              script[j].h = "returned" /\ script[j].st \notin {"FINISHED", "ERROR"}

\* C16: the calls of an attempt that is not a dry run and whose media URL
\* resolves are the first calls of: create, poll, publish for the reel, then,
\* with also_story, create, poll, publish for the story.  There is at least
\* one; every call but the last returned; publish is called only after a poll
\* that reported FINISHED; the story's calls come only after the reel's
\* publish returned and only with also_story; and the attempt returns exactly
\* when all of its three or six calls were made and returned.
C16_CallsInOrder ==
    (postOut # <<>> /\ ~postIn[1].dry_run
       /\ (postIn[1].url # <<>> \/ postIn[1].public_base_url)) =>
        LET calls == postOut[1].calls
            n == Len(calls)
            full == IF postIn[1].also_story THEN 6 ELSE 3
        IN  /\ n >= 1 /\ n <= full
            /\ \A k \in 1..n : <<calls[k][1], calls[k][2]>> = CallOrder[k]
            /\ \A k \in 1..(n - 1) : calls[k][3] = "returned"
            /\ n >= 3 => ReportedFinished(postIn[1].reel.poll)
            /\ n >= 6 => ReportedFinished(postIn[1].story.poll)
            /\ n > 3 => calls[3] = <<"publish", "REELS", "returned">>
            /\ postOut[1].raised = <<>> <=> (n = full /\ calls[n][3] = "returned")

\* C16 witness: with also_story the reel went through and the story's poll
\* failed, so the story was never published
C16_Witness ==
    /\ postOut # <<>>
    /\ postIn[1].also_story
    /\ ~postIn[1].dry_run
    /\ Len(postOut[1].calls) = 5
    /\ postOut[1].calls[3] = <<"publish", "REELS", "returned">>
    /\ postOut[1].calls[5] = <<"poll", "STORIES", "TimeoutError">>
    /\ postOut[1].raised = <<"TimeoutError">>

\* record b is record a but for the outcome fields, and for public_video_url
\* when a has none
SameButOutcome(a, b) ==
    /\ b.id = a.id
    /\ b.post_at_iso = a.post_at_iso
    /\ a.public_video_url # <<>> => b.public_video_url = a.public_video_url

\* C17: a cycle loads the records of the file in file order; each pass is
\* over the next record, keeps the number and order of the records and all
\* other records, leaves a record that is published, unscheduled or not due
\* exactly as it is, and changes nothing but outcome fields on a due one; and
\* what a cycle writes has the records of the file, in the same order, each
\* the same but for the outcome fields.
C17_FrameOfACycle ==
    [][ \A t \in DOMAIN pc :
          /\ (pc[t] = "start" /\ pc'[t] = "loop") => cyc'[t].schedule = file
          /\ Pass(t) =>
                /\ cyc'[t].i = cyc[t].i + 1
                /\ OthersKept(t)
                /\ SameButOutcome(Before(t), After(t))
                /\ ~DueNow(t) => After(t) = Before(t)
          /\ (pc[t] \in {"start", "loop"} /\ pc'[t] \in {"loop", "end"}) =>
                /\ Len(file') = Len(file)
                /\ \A k \in 1..Len(file) :
                      /\ SameButOutcome(file[k], file'[k])
                      /\ ( \/ file[k].published_at_iso # <<>>
                           \/ file[k].post_at_iso = <<>> ) => file'[k] = file[k]
      ]_vars

\* C17 witness: a cycle has published its first record, writing the derived
\* URL onto it, and saved; the second record, unscheduled, is as the generator
\* wrote it
C17_Witness ==
    \E t \in DOMAIN pc :
        /\ pc[t] = "end"
        /\ cyc[t].out = "True"
        /\ Len(file) = 2
        /\ file[1].published_at_iso # <<>>
        /\ file[1].public_video_url = <<"derived">>
        /\ file[2] = NewRecord(RecIds[2], <<>>, <<"explicit">>)

\* C18: the lock is held only by a trigger whose run is between its start and
\* its finish, the step that finishes a run, however the cycle ended, frees
\* it, and a trigger is answered busy only while such a run holds it; and a
\* lock that is held is freed in the end.
C18_GuardIsReleased ==
    /\ [](run_lock # <<>> =>
             \E u \in DOMAIN pc :
                run_lock = <<u>> /\ pc[u] \in {"start", "loop", "end"})
    /\ [][ \A t \in DOMAIN pc :
             /\ (pc[t] = "end" /\ pc'[t] = "idle") => run_lock' = <<>>
             /\ (resp'[t] = <<"busy">> /\ resp[t] # <<"busy">>) =>
                   \E u \in DOMAIN pc :
                      u # t /\ run_lock = <<u>> /\ pc[u] \in {"start", "loop", "end"}
         ]_vars
    /\ (run_lock # <<>>) ~> (run_lock = <<>>)

\* C18 witness: a run whose cycle aborted with SystemExit has finished, the
\* lock is free, and the next trigger has been let in
C18_Witness ==
    \E t, u \in DOMAIN pc :
        /\ t # u
        /\ resp[t] = <<"SystemExit">>
        /\ pc[t] = "idle"
        /\ pc[u] = "start"
        /\ run_lock = <<u>>

\* C19: over any sequence of cycles the REELS media_publish call succeeds at
\* most once for each record id.
C19_ReelPublishedOnce ==
    \A id \in DOMAIN posted : posted[id] <= 1

\* C20: no record, on disk or in the hands of a cycle, has both
\* published_at_iso and publish_error set.
C20_PublishedXorError ==
    /\ \A k \in 1..Len(file) :
          ~(file[k].published_at_iso # <<>> /\ file[k].publish_error # <<>>)
    /\ \A t \in DOMAIN pc : \A k \in 1..Len(cyc[t].schedule) :
          ~( /\ cyc[t].schedule[k].published_at_iso # <<>>
             /\ cyc[t].schedule[k].publish_error # <<>> )

====
